---- MODULE Spec2Model ----
(***************************************************************************)
(* A model of the svg document builder: Document.MakeStyle and its style   *)
(* table (text.go), the TransformList and its attribute marshaler          *)
(* (shapes.go) and the append-only ElemList of containers (text.go,        *)
(* shapes.go).                                                             *)
(*                                                                         *)
(* Go strings are modelled as sequences of one-character strings, so that  *)
(* concatenation, suffix trimming and decimal formatting are computed the  *)
(* way the code computes them:  "a1"  is  <<"a", "1">>.                    *)
(***************************************************************************)
EXTENDS Integers, Sequences, FiniteSets, TLC

VARIABLES
    conf,      \* Document.conf: the Conf the document was created with
    ID,        \* Document.ID (Object.ID promoted through Container)
    Style,     \* Document.Style: the accumulated stylesheet text
    styles,    \* Document.styles: defMap, classMap, nConflict
    hist,      \* log of the MakeStyle calls made so far, with their results
    tl,        \* a TransformList
    tcalls,    \* log of the calls that built tl
    attr,      \* the last result of TransformList.MarshalXMLAttr
    lists,     \* the ElemList of every container, by container handle
    ecalls,    \* log of the element-adding calls on ElemLists
    textOps,   \* number of AddText, AddSpan and AddInt calls made
    panicked,  \* a run-time panic has ended the program
    GOARCH     \* the architecture the program is built for

vars == <<conf, ID, Style, styles, hist, tl, tcalls, attr, lists, ecalls, textOps, panicked,
         GOARCH>>

styleVars == <<conf, ID, Style, styles, hist>>
transformVars == <<tl, tcalls, attr>>
elemVars == <<lists, ecalls, textOps, panicked>>

----------------------------------------------------------------------------
(* Bounds *)

MaxCalls == 3      \* MakeStyle calls per document
MaxOps == 3        \* operations per transform chain
MaxElems == 3      \* calls that build the element tree, per document

(* Inputs *)

Names == { <<"a">>, <<"a", "1">> }
StyleTexts == { <<>>, <<"f">>, <<"f", ";">> }
IDs == { <<>>, <<"d">> }

\* A float64 is given by its shortest decimal form, (-1)^neg * m * 10^e.
Float(neg, m, e) == [neg |-> neg, m |-> m, e |-> e]
Degrees == { Float(FALSE, 30, 0), Float(FALSE, 5, -1), Float(TRUE, 45, 0),
             Float(FALSE, 1, 6) }
Offsets == { <<1, 2>>, <<-3, 10>> }

LineArgs == { <<1, 2, 3, 4>> }
RectArgs == { <<0, 0, 5, 6>> }
CircleArgs == { <<1, 1, 2>> }
EllipseArgs == { <<1, 1, 2, 3>> }
Contents == { <<>>, <<"h", "i">> }
PathData == { <<"M", "0", " ", "0">> }
ObjectIDs == { <<"o">> }
PointArgs == { <<5, 6>> }

\* A Go int is given as m * 2^e, so that values beyond 31 bits can be written.
IntOf(m, e) == [m |-> m, e |-> e]
Capacities == { IntOf(-1, 0), IntOf(2, 0), IntOf(536870912, 0), IntOf(1, 45) }

\* The builds: int and pointers are 32 bits wide on 386, 64 bits on amd64.
Builds == { "386", "amd64" }

----------------------------------------------------------------------------
(* String helpers of the Go standard library, as the code uses them *)

Digit(d) == <<"0", "1", "2", "3", "4", "5", "6", "7", "8", "9">>[d + 1]

RECURSIVE UItoa(_)
UItoa(n) == IF n < 10 THEN <<Digit(n)>> ELSE UItoa(n \div 10) \o <<Digit(n % 10)>>

Itoa(n) == IF n < 0 THEN <<"-">> \o UItoa(-n) ELSE UItoa(n)

HasSuffix(s, suffix) ==
    /\ Len(s) >= Len(suffix)
    /\ SubSeq(s, Len(s) - Len(suffix) + 1, Len(s)) = suffix

TrimSuffix(s, suffix) ==
    IF HasSuffix(s, suffix) THEN SubSeq(s, 1, Len(s) - Len(suffix)) ELSE s

RECURSIVE Join(_, _)
Join(elems, sep) ==
    IF Len(elems) = 0 THEN <<>>
    ELSE IF Len(elems) = 1 THEN elems[1]
    ELSE elems[1] \o sep \o Join(Tail(elems), sep)

----------------------------------------------------------------------------
(* Document.MakeStyle *)

Styling(class, style) == [Class |-> class, Style |-> style]

NewStyles == [made |-> FALSE, defMap |-> <<>>, classMap |-> <<>>, nConflict |-> 0]

\* s.defMap == nil: both maps are made on the first embedding call.
MakeMaps(s) == IF s.made THEN s ELSE [s EXCEPT !.made = TRUE]

\* m[k] = v of a Go map
MapSet(m, k, v) == [x \in (DOMAIN m) \cup {k} |-> IF x = k THEN v ELSE m[x]]

\* Variant: the early return of MakeStyle is never taken.
EmbedsAlways(c) == TRUE

\* if !d.conf.GenerateEmbeddedStylesheet { return ... }
Embeds(c) == c.GenerateEmbeddedStylesheet

\* The Styling returned when no stylesheet is generated.
InlineStyling(name, style) ==
    IF style # <<>> THEN Styling(<<>>, style) ELSE Styling(name, <<>>)

\* Variant: the counter is appended before it is incremented.
ResolveNameStale(s, name) ==
    IF name \in DOMAIN s.classMap
    THEN [name |-> name \o Itoa(s.nConflict), nConflict |-> s.nConflict + 1]
    ELSE [name |-> name, nConflict |-> s.nConflict]

\* A requested name already in classMap is a conflict: nConflict++, and the
\* new value is appended to the name.
ResolveName(s, name) ==
    IF name \in DOMAIN s.classMap
    THEN [name |-> name \o Itoa(s.nConflict + 1), nConflict |-> s.nConflict + 1]
    ELSE [name |-> name, nConflict |-> s.nConflict]

\* Variant: defMap never records a style.
StoreDefNever(c, defMap, style, name) == defMap

\* defMap records the style only under StylesheetUnifyStyles.
StoreDef(c, defMap, style, name) ==
    IF c.StylesheetUnifyStyles THEN MapSet(defMap, style, name) ELSE defMap

\* Variant: the space between two rules is left out.
AppendRuleUnseparated(c, id, S, name, style) ==
    LET s2 == IF c.ScopeStyleDefinitions /\ id # <<>>
              THEN S \o <<"#">> \o id \o <<" ">> ELSE S
    IN  s2 \o <<".">> \o name \o <<" ", "{">> \o TrimSuffix(style, <<";">>) \o <<"}">>

\* "update style": the text of Document.Style after the rule is appended.
AppendRule(c, id, S, name, style) ==
    LET s1 == IF S # <<>> THEN S \o <<" ">> ELSE S
        s2 == IF c.ScopeStyleDefinitions /\ id # <<>>
              THEN s1 \o <<"#">> \o id \o <<" ">> ELSE s1
    IN  s2 \o <<".">> \o name \o <<" ", "{">> \o TrimSuffix(style, <<";">>) \o <<"}">>

\* The whole of MakeStyle on a document (c, id, S, s): the document's new
\* Style and styles, and the Styling returned.
MakeStyleResult(c, id, S, s, name, style) ==
    IF ~Embeds(c)
    THEN [Style |-> S, styles |-> s, ret |-> InlineStyling(name, style)]
    ELSE LET s0 == MakeMaps(s)
         IN  IF style \in DOMAIN s0.defMap
             THEN [Style |-> S, styles |-> s0,
                   ret |-> Styling(s0.defMap[style], <<>>)]
             ELSE LET r == ResolveName(s0, name)
                      s1 == [made |-> TRUE,
                             defMap |-> StoreDef(c, s0.defMap, style, r.name),
                             classMap |-> MapSet(s0.classMap, r.name, style),
                             nConflict |-> r.nConflict]
                  IN  [Style |-> AppendRule(c, id, S, r.name, style),
                       styles |-> s1,
                       ret |-> Styling(r.name, <<>>)]

MakeStyle(name, style) ==
    /\ Len(hist) < MaxCalls
    /\ LET r == MakeStyleResult(conf, ID, Style, styles, name, style)
       IN  /\ Style' = r.Style
           /\ styles' = r.styles
           /\ hist' = Append(hist, [name |-> name, style |-> style, ret |-> r.ret,
                                    id |-> ID,
                                    preStyle |-> Style, preStyles |-> styles,
                                    postStyle |-> r.Style, postStyles |-> r.styles])
    /\ UNCHANGED <<conf, ID, transformVars, elemVars, GOARCH>>

\* Container.SetID on the document
SetID(id) ==
    /\ ID' = id
    /\ UNCHANGED <<conf, Style, styles, hist, transformVars, elemVars, GOARCH>>

Confs == [GenerateEmbeddedStylesheet : BOOLEAN, StylesheetUnifyStyles : BOOLEAN,
          ScopeStyleDefinitions : BOOLEAN]

----------------------------------------------------------------------------
(* TransformList *)

\* strconv.FormatFloat(f, 'g', -1, 64): the shortest decimal digits of f and
\* the position of the decimal point, then %e for exponents < -4 or >= 6 and
\* %f otherwise.
RECURSIVE DigitsOf(_)
DigitsOf(n) == IF n < 10 THEN <<n>> ELSE DigitsOf(n \div 10) \o <<n % 10>>

RECURSIVE StripZeros(_)
StripZeros(d) ==
    IF Len(d) > 0 /\ d[Len(d)] = 0 THEN StripZeros(SubSeq(d, 1, Len(d) - 1)) ELSE d

Decimal(f) ==
    IF f.m = 0 THEN [d |-> <<>>, nd |-> 0, dp |-> 0]
    ELSE LET all == DigitsOf(f.m)
             d == StripZeros(all)
         IN  [d |-> d, nd |-> Len(d), dp |-> Len(all) + f.e]

Max(a, b) == IF a > b THEN a ELSE b
Min(a, b) == IF a < b THEN a ELSE b

Zeros(n) == [i \in 1..n |-> "0"]
DigitChars(d) == [i \in 1..Len(d) |-> Digit(d[i])]

\* %e: d.ddde+dd
fmtE(neg, digs, prec) ==
    LET first == IF digs.nd = 0 THEN <<"0">> ELSE <<Digit(digs.d[1])>>
        m == Min(digs.nd, prec + 1)
        frac == IF prec > 0
                THEN <<".">> \o DigitChars(SubSeq(digs.d, 2, m))
                         \o Zeros(prec - Max(m - 1, 0))
                ELSE <<>>
        exp == IF digs.nd = 0 THEN 0 ELSE digs.dp - 1
        mag == IF exp < 0 THEN -exp ELSE exp
        expDigits == IF mag < 10 THEN <<"0", Digit(mag)>> ELSE UItoa(mag)
    IN  (IF neg THEN <<"-">> ELSE <<>>) \o first \o frac \o <<"e">>
            \o (IF exp < 0 THEN <<"-">> ELSE <<"+">>) \o expDigits

\* %f: ddddd.ddd
fmtF(neg, digs, prec) ==
    LET int == IF digs.dp > 0
               THEN LET m == Min(digs.nd, digs.dp)
                    IN  DigitChars(SubSeq(digs.d, 1, m)) \o Zeros(digs.dp - m)
               ELSE <<"0">>
        frac == IF prec > 0
                THEN <<".">> \o [i \in 1..prec |->
                                   LET j == digs.dp + i
                                   IN  IF 1 <= j /\ j <= digs.nd
                                       THEN Digit(digs.d[j]) ELSE "0"]
                ELSE <<>>
    IN  (IF neg THEN <<"-">> ELSE <<>>) \o int \o frac

FormatFloat(f) ==
    LET digs == Decimal(f)
        exp == digs.dp - 1
    IN  IF exp < -4 \/ exp >= 6
        THEN fmtE(f.neg, digs, digs.nd - 1)
        ELSE fmtF(f.neg, digs, Max(digs.nd - digs.dp, 0))

intArg(i) == [t |-> "int", v |-> i]
floatArg(f) == [t |-> "float", v |-> f]

\* TransformArg.String()
ArgString(a) == IF a.t = "int" THEN Itoa(a.v) ELSE FormatFloat(a.v)

Translate == <<"t", "r", "a", "n", "s", "l", "a", "t", "e">>
Rotate == <<"r", "o", "t", "a", "t", "e">>
SkewXName == <<"s", "k", "e", "w", "X">>
SkewYName == <<"s", "k", "e", "w", "Y">>

Transform(name, args) == [Name |-> name, Args |-> args]

translateInt(x, y) == Transform(Translate, <<intArg(x), intArg(y)>>)
ftrans(name, f) == Transform(name, <<floatArg(f)>>)

\* Variant: the values are joined by ','.
makeListAttrComma(values) == Join(values, <<",">>)

\* makeListAttr: the values joined by one space
makeListAttr(values) == Join(values, <<" ">>)

\* TransformList.MarshalXMLAttr: the Value of the attribute
MarshalXMLAttr(list) ==
    makeListAttr([i \in 1..Len(list) |->
        list[i].Name \o <<"(">>
            \o Join([ia \in 1..Len(list[i].Args) |-> ArgString(list[i].Args[ia])], <<",">>)
            \o <<")">>])

\* TransformList.append, with the log of the call
appendTransform(t, op, args) ==
    /\ Len(tl) < MaxOps
    /\ tl' = Append(tl, t)
    /\ tcalls' = Append(tcalls, [op |-> op, args |-> args])
    /\ UNCHANGED <<attr, styleVars, elemVars, GOARCH>>

TranslateInt(x, y) == appendTransform(translateInt(x, y), "TranslateInt", <<x, y>>)
RotateOrig(degrees) == appendTransform(ftrans(Rotate, degrees), "RotateOrig", <<degrees>>)
SkewX(degrees) == appendTransform(ftrans(SkewXName, degrees), "SkewX", <<degrees>>)
SkewY(degrees) == appendTransform(ftrans(SkewYName, degrees), "SkewY", <<degrees>>)

\* The encoder marshals the transform attribute.
Marshal ==
    /\ attr' = [set |-> TRUE, Value |-> MarshalXMLAttr(tl), calls |-> tcalls]
    /\ UNCHANGED <<tl, tcalls, styleVars, elemVars, GOARCH>>

InitTransform ==
    /\ tl = <<>>
    /\ tcalls = <<>>
    /\ attr = [set |-> FALSE, Value |-> <<>>, calls |-> <<>>]

----------------------------------------------------------------------------
(* ElemList and Container *)

\* n >= 2^k, for an int n = m * 2^e with |m| < 2^31
AtLeastPow2(n, k) ==
    /\ n.m > 0
    /\ IF n.e >= k THEN TRUE
       ELSE IF k - n.e > 30 THEN FALSE
       ELSE n.m >= 2^(k - n.e)

\* n > 2^k
AbovePow2(n, k) ==
    /\ n.m > 0
    /\ IF n.e > k THEN TRUE
       ELSE IF k - n.e > 30 THEN FALSE
       ELSE n.m > 2^(k - n.e)

\* The width of int
IntBits(arch) == IF arch = "386" THEN 32 ELSE 64

\* n is a value of type int: -2^(w-1) <= n < 2^(w-1)
IsInt(arch, n) ==
    IF n.m < 0 THEN ~AbovePow2(IntOf(-n.m, n.e), IntBits(arch) - 1)
    ELSE ~AtLeastPow2(n, IntBits(arch) - 1)

\* log2 of the size of an element: an interface{} of an ElemList is two
\* words, a [2]float64 of Points is 16 bytes.
ElemListElem(arch) == IF arch = "386" THEN 3 ELSE 4
PointsElem(arch) == 4

\* make(T, 0, n) of a slice type T with elements of 2^size bytes panics
\* (makeslice: cap out of range) when n is negative or the slice would need
\* more than maxAlloc bytes: 2^32 - 1 on 386, 2^48 on amd64.  A capacity
\* that passes is taken to be allocated.
MakePanics(arch, size, n) ==
    \/ n.m < 0
    \/ IF arch = "386" THEN AtLeastPow2(n, 32 - size) ELSE AbovePow2(n, 48 - size)

\* A container is known by its handle; handle 1 is the document's own
\* Container.  An ElemList is nil until PreAlloc or the first append.
Root == 1
NilList == [isNil |-> TRUE, items |-> <<>>]

\* Points: nil, or a slice of coordinate pairs
NilPoints == [isNil |-> TRUE, pts |-> <<>>]

\* A node is a pointer to a struct: id is the identity of the pointer, which
\* the list holds and the constructor returns; Data is the TextData of a text,
\* Points the Points of a polyline or polygon.
Node(kind, tag, args, text, c) ==
    [id |-> 0, kind |-> kind, tag |-> tag, args |-> args, text |-> text,
     Data |-> <<>>, Points |-> NilPoints, c |-> c]

\* The items of a TextData: chardata, or a tspan with its own TextData.
chardata(s) == [t |-> "chardata", s |-> s, Data |-> <<>>]
tspan(data) == [t |-> "tspan", s |-> <<>>, Data |-> data]

\* if content != "" { t.Data = append(t.Data, content) }
InitialData(content) == IF content # <<>> THEN <<chardata(content)>> ELSE <<>>

\* The calls made so far that build the element tree: those that add an
\* element, and those that add to the data of a text or to the points of a
\* polyline.
TreeCalls == Len(ecalls) + textOps

\* Variant: the node is put before the children.
appendFront(el, n) == [isNil |-> FALSE, items |-> <<n>> \o el.items]

\* ElemList.append
append(el, n) == [isNil |-> FALSE, items |-> Append(el.items, n)]

\* An element-adding method on the ElemList of container h.
Add(h, op, n) ==
    /\ ~panicked
    /\ h \in DOMAIN lists
    /\ TreeCalls < MaxElems
    /\ lists' = [ (IF n.c # 0 THEN Append(lists, NilList) ELSE lists)
                    EXCEPT ![h] = append(lists[h], [n EXCEPT !.id = Len(ecalls) + 1]) ]
    /\ ecalls' = Append(ecalls, [op |-> op, h |-> h,
                                 before |-> lists[h].items,
                                 after |-> lists'[h].items])
    /\ UNCHANGED <<textOps, panicked, styleVars, transformVars, GOARCH>>

LineInt(h, a) == Add(h, "LineInt", Node("line", "line", a, <<>>, 0))
RectInt(h, a) == Add(h, "RectInt", Node("Rect", "rect", a, <<>>, 0))
CircleInt(h, a) == Add(h, "CircleInt", Node("circle", "circle", a, <<>>, 0))
EllipseInt(h, a) == Add(h, "EllipseInt", Node("ellipse", "circle", a, <<>>, 0))
PolyLine(h) == Add(h, "PolyLine", Node("PolyLine", "polyline", <<>>, <<>>, 0))
Polygon(h) == Add(h, "Polygon", Node("polygon", "polygon", <<>>, <<>>, 0))
Path(h, d) == Add(h, "Path", Node("path", "path", <<>>, <<d>>, 0))
TextInt(h, x, y, content) ==
    Add(h, "TextInt", [Node("text", "text", <<x, y>>, <<>>, 0)
                           EXCEPT !.Data = InitialData(content)])
UseObjectInt(h, x, y, id) ==
    Add(h, "UseObjectInt", Node("use", "use", <<x, y>>, <<(<<"#">> \o id)>>, 0))
Group(h) == Add(h, "Group", Node("Group", "g", <<>>, <<>>, Len(lists) + 1))
Defs(h) == Add(h, "Defs", Node("Defs", "defs", <<>>, <<>>, Len(lists) + 1))
Title(h, content) == Add(h, "Title", Node("title", "title", <<>>, <<content>>, 0))

\* Container.PreAlloc: a nil list is made with capacity n, or make panics.
PreAlloc(h, n) ==
    /\ ~panicked
    /\ h \in DOMAIN lists
    /\ IsInt(GOARCH, n)
    /\ IF lists[h].isNil /\ MakePanics(GOARCH, ElemListElem(GOARCH), n)
       THEN /\ panicked' = TRUE
            /\ UNCHANGED lists
       ELSE /\ lists' = [lists EXCEPT ![h] = [isNil |-> FALSE, items |-> @.items]]
            /\ UNCHANGED panicked
    /\ UNCHANGED <<ecalls, textOps, styleVars, transformVars, GOARCH>>

\* The k-th child of container h is a *PolyLine: PolyLine returns the node,
\* Polygon the PolyLine embedded in it.
IsPolyLine(h, k) ==
    /\ h \in DOMAIN lists
    /\ k \in 1..Len(lists[h].items)
    /\ lists[h].items[k].kind \in {"PolyLine", "polygon"}

\* PolyLine.PreAlloc: nil Points are made with capacity n, or make panics.
PolyLinePreAlloc(h, k, n) ==
    /\ ~panicked
    /\ IsPolyLine(h, k)
    /\ IsInt(GOARCH, n)
    /\ IF lists[h].items[k].Points.isNil /\ MakePanics(GOARCH, PointsElem(GOARCH), n)
       THEN /\ panicked' = TRUE
            /\ UNCHANGED lists
       ELSE /\ lists' = [lists EXCEPT ![h].items[k].Points.isNil = FALSE]
            /\ UNCHANGED panicked
    /\ UNCHANGED <<ecalls, textOps, styleVars, transformVars, GOARCH>>

\* Points.AddInt on the Points of a PolyLine
AddInt(h, k, x, y) ==
    /\ ~panicked
    /\ IsPolyLine(h, k)
    /\ TreeCalls < MaxElems
    /\ lists' = [lists EXCEPT ![h].items[k].Points =
                                  [isNil |-> FALSE, pts |-> Append(@.pts, <<x, y>>)]]
    /\ textOps' = textOps + 1
    /\ UNCHANGED <<ecalls, panicked, styleVars, transformVars, GOARCH>>

\* The TextObjects reachable in a TextData, each by the positions of the
\* tspans that lead to it; <<>> is the TextObject that owns the data.
RECURSIVE Paths(_)
Paths(data) ==
    {<<>>} \cup
    UNION { { <<p>> \o q : q \in Paths(data[p].Data) } :
            p \in { i \in 1..Len(data) : data[i].t = "tspan" } }

\* The TextObjects of the k-th child of container h: those of a text node
\* returned by TextInt, and of the tspans returned by AddSpan.
TextObjects(h, k) ==
    IF /\ h \in DOMAIN lists
       /\ k \in 1..Len(lists[h].items)
       /\ lists[h].items[k].kind = "text"
    THEN Paths(lists[h].items[k].Data)
    ELSE {}

\* t.Data = append(t.Data, item) on the TextObject at path
RECURSIVE AppendAt(_, _, _)
AppendAt(data, path, item) ==
    IF path = <<>> THEN Append(data, item)
    ELSE [data EXCEPT ![Head(path)].Data = AppendAt(@, Tail(path), item)]

\* A method of the TextObject at path in the k-th child of container h
\* appends an item to its Data; the node stays where it is in the list.
appendData(h, k, path, item) ==
    /\ ~panicked
    /\ path \in TextObjects(h, k)
    /\ TreeCalls < MaxElems
    /\ lists' = [lists EXCEPT ![h].items[k].Data = AppendAt(@, path, item)]
    /\ textOps' = textOps + 1
    /\ UNCHANGED <<ecalls, panicked, styleVars, transformVars, GOARCH>>

\* TextObject.AddText
AddText(h, k, path, content) == appendData(h, k, path, chardata(content))

\* TextObject.AddSpan
AddSpan(h, k, path, content) == appendData(h, k, path, tspan(InitialData(content)))

InitElems ==
    /\ lists = <<NilList>>
    /\ ecalls = <<>>
    /\ textOps = 0
    /\ panicked = FALSE
    /\ GOARCH \in Builds

\* NewDocument(c)
Init ==
    /\ conf \in Confs
    /\ ID = <<>>
    /\ Style = <<>>
    /\ styles = NewStyles
    /\ hist = <<>>
    /\ InitTransform
    /\ InitElems

\* NewDocument(nil)
InitDefault ==
    /\ conf = [GenerateEmbeddedStylesheet |-> FALSE, StylesheetUnifyStyles |-> FALSE,
               ScopeStyleDefinitions |-> FALSE]
    /\ ID = <<>>
    /\ Style = <<>>
    /\ styles = NewStyles
    /\ hist = <<>>
    /\ InitTransform
    /\ InitElems

Next ==
    \/ \E name \in Names, style \in StyleTexts : MakeStyle(name, style)
    \/ \E id \in IDs : SetID(id)

Spec == Init /\ [][Next]_vars

NextTransform ==
    \/ \E o \in Offsets : TranslateInt(o[1], o[2])
    \/ \E d \in Degrees : RotateOrig(d)
    \/ \E d \in Degrees : SkewX(d)
    \/ \E d \in Degrees : SkewY(d)
    \/ Marshal

\* A TransformList of a new document.  Its methods take small ints and
\* float64s and make no slice of a given capacity, so one build stands for both.
InitTransformList == InitDefault /\ GOARCH = "amd64"

SpecTransform == InitTransformList /\ [][NextTransform]_vars

NextElems ==
    \E h \in 1..(MaxElems + 1) :
        \/ \E a \in LineArgs : LineInt(h, a)
        \/ \E a \in RectArgs : RectInt(h, a)
        \/ \E a \in CircleArgs : CircleInt(h, a)
        \/ \E a \in EllipseArgs : EllipseInt(h, a)
        \/ PolyLine(h)
        \/ Polygon(h)
        \/ \E d \in PathData : Path(h, d)
        \/ \E c \in Contents : TextInt(h, 1, 2, c)
        \/ \E id \in ObjectIDs : UseObjectInt(h, 3, 4, id)
        \/ Group(h)
        \/ Defs(h)
        \/ \E c \in Contents \ {<<>>} : Title(h, c)
        \/ \E n \in Capacities : PreAlloc(h, n)
        \/ \E k \in 1..MaxElems, n \in Capacities : PolyLinePreAlloc(h, k, n)
        \/ \E k \in 1..MaxElems, p \in PointArgs : AddInt(h, k, p[1], p[2])
        \/ \E k \in 1..MaxElems : \E path \in TextObjects(h, k) :
              \/ \E c \in Contents : AddText(h, k, path, c)
              \/ \E c \in Contents : AddSpan(h, k, path, c)

SpecElems == InitDefault /\ [][NextElems]_vars

----------------------------------------------------------------------------
(* Properties of Document.MakeStyle *)

Embedding == conf.GenerateEmbeddedStylesheet
Unifying == conf.StylesheetUnifyStyles
Scoping == conf.ScopeStyleDefinitions

Calls == 1..Len(hist)

\* style text without one trailing ';'
Body(style) ==
    IF Len(style) > 0 /\ style[Len(style)] = ";"
    THEN SubSeq(style, 1, Len(style) - 1) ELSE style

\* ".class {body}"
RuleText(class, style) == <<".">> \o class \o <<" ", "{">> \o Body(style) \o <<"}">>

\* Call i appended a rule to the stylesheet.
Registered(i) == hist[i].postStyle # hist[i].preStyle

\* Call i repeats the style text of an earlier call.
Repeats(i) == \E k \in 1..(i - 1) : hist[k].style = hist[i].style

\* The number of rules in a stylesheet text, and the declaration bodies of
\* its rules by the position of their '{'.
Opens(S) == { p \in 1..Len(S) : S[p] = "{" }
CloseOf(S, o) == CHOOSE c \in (o + 1)..Len(S) :
                    /\ S[c] = "}"
                    /\ \A x \in (o + 1)..(c - 1) : S[x] # "}"
BodyAt(S, o) == SubSeq(S, o + 1, CloseOf(S, o) - 1)

\* C1: without an embedded stylesheet, every MakeStyle call returns a
\* style-only Styling: Style is the style text with one trailing ';' removed,
\* and Class is empty.
C1_InlineTrimmedNoClass ==
    ~Embedding =>
        \A i \in Calls : hist[i].ret = Styling(<<>>, Body(hist[i].style))

\* C2: with an embedded stylesheet and unified styles, a call whose style text
\* equals that of an earlier call returns the class the earlier call returned,
\* whatever name is requested, and appends no rule; the stylesheet holds one
\* rule per distinct style text.
C2_UnifiedReuse ==
    (Embedding /\ Unifying) =>
        /\ \A i, j \in Calls :
              (i < j /\ hist[i].style = hist[j].style) =>
                  /\ hist[j].ret.Class = hist[i].ret.Class
                  /\ hist[j].postStyle = hist[j].preStyle
        /\ Cardinality(Opens(Style)) = Cardinality({ hist[i].style : i \in Calls })
        /\ \A i \in Calls :
              Cardinality({ k \in Calls : Registered(k) /\ hist[k].style = hist[i].style }) = 1

C2_Witness ==
    /\ Embedding /\ Unifying
    /\ \E i, j \in Calls :
          /\ i < j
          /\ hist[i].style = hist[j].style
          /\ hist[i].name # hist[j].name
          /\ hist[i].style # <<>>

\* C3: a call that registers a rule under a requested name already in the
\* class table returns the requested name followed by the decimal value of the
\* incremented conflict counter; the k-th conflict of a document gets suffix
\* k, and a call without a conflict leaves the counter unchanged.
Conflict(i) == Registered(i) /\ hist[i].name \in DOMAIN hist[i].preStyles.classMap
ConflictsUpTo(i) == Cardinality({ k \in 1..i : Conflict(k) })

C3_ConflictSuffix ==
    Embedding =>
        /\ \A i \in Calls :
              IF Conflict(i)
              THEN /\ hist[i].ret.Class = hist[i].name \o Itoa(ConflictsUpTo(i))
                   /\ hist[i].ret.Class # hist[i].name
                   /\ hist[i].postStyles.nConflict = hist[i].preStyles.nConflict + 1
                   /\ hist[i].postStyles.nConflict = ConflictsUpTo(i)
              ELSE hist[i].postStyles.nConflict = hist[i].preStyles.nConflict
        /\ styles.nConflict = ConflictsUpTo(Len(hist))

C3_Witness ==
    /\ Embedding
    /\ \E i, j \in Calls : i < j /\ Conflict(i) /\ Conflict(j)
    /\ \E i \in Calls : Registered(i) /\ ~Conflict(i)

\* C4: class names are unique within a document: every call that registers a
\* rule registers a name that was not in the class table before the call, so
\* no two rules of the stylesheet carry the same class name.
C4_ClassNamesUnique ==
    Embedding =>
        /\ \A i \in Calls :
              Registered(i) => hist[i].ret.Class \notin DOMAIN hist[i].preStyles.classMap
        /\ \A i, j \in Calls :
              (i < j /\ Registered(i) /\ Registered(j)) =>
                  hist[i].ret.Class # hist[j].ret.Class

\* C5: without an embedded stylesheet MakeStyle has no side effect on the
\* document: the stylesheet text, both maps of the style table and the
\* conflict counter stay as they were before the calls.
C5_InlineNoSideEffect ==
    ~Embedding =>
        /\ Style = <<>>
        /\ styles = NewStyles
        /\ \A i \in Calls :
              /\ hist[i].postStyle = hist[i].preStyle
              /\ hist[i].postStyles = hist[i].preStyles

C5_Witness ==
    /\ ~Embedding
    /\ \E i, j \in Calls :
          /\ i < j
          /\ hist[i].style # <<>>
          /\ hist[j].style = <<>>

\* The position in Document.Style of the '.' that starts the rule call i
\* registered.
RuleStart(i) ==
    Len(hist[i].postStyle) - Len(RuleText(hist[i].ret.Class, hist[i].style)) + 1

PrecededBy(S, p, prefix) ==
    /\ p > Len(prefix)
    /\ SubSeq(S, p - Len(prefix), p - 1) = prefix

ScopePrefix(id) == <<"#">> \o id \o <<" ">>

Separator(S) == IF S # <<>> THEN <<" ">> ELSE <<>>

\* C6: with an embedded and scoped stylesheet, after any SetID and MakeStyle
\* calls every rule of the stylesheet is immediately preceded by '#' + the
\* document's current ID + ' '; no rule is emitted without a scope prefix.
C6_ScopedByCurrentID ==
    (Embedding /\ Scoping) =>
        \A i \in Calls :
            Registered(i) => PrecededBy(Style, RuleStart(i), ScopePrefix(ID))

\* C7: with an embedded stylesheet and unified styles, each style occurs only
\* once in the stylesheet: no two rules have the same declaration body
\* between '{' and '}'.
C7_BodiesUnique ==
    (Embedding /\ Unifying) =>
        \A o1, o2 \in Opens(Style) :
            o1 # o2 => BodyAt(Style, o1) # BodyAt(Style, o2)

\* C10: with an embedded stylesheet the stylesheet text only grows by
\* appending: a call that registers a class changes Document.Style from S to
\* S + (' ' if S is non-empty) + optional scope prefix + '.' + class + ' {' +
\* style text without one trailing ';' + '}'; a call that reuses an existing
\* class leaves Document.Style, the class table and the counter unchanged.
Reuses(i) == Unifying /\ Repeats(i)

C10_StyleGrowsByAppending ==
    Embedding =>
        /\ \A i \in Calls :
              IF Reuses(i)
              THEN /\ hist[i].postStyle = hist[i].preStyle
                   /\ hist[i].postStyles.classMap = hist[i].preStyles.classMap
                   /\ hist[i].postStyles.nConflict = hist[i].preStyles.nConflict
              ELSE \E prefix \in { <<>>, ScopePrefix(hist[i].id) } :
                      hist[i].postStyle =
                          hist[i].preStyle \o Separator(hist[i].preStyle) \o prefix
                              \o RuleText(hist[i].ret.Class, hist[i].style)
        /\ \A i \in Calls :
              /\ Len(hist[i].postStyle) <= Len(Style)
              /\ SubSeq(Style, 1, Len(hist[i].postStyle)) = hist[i].postStyle
              /\ i > 1 => hist[i].preStyle = hist[i - 1].postStyle
        /\ Len(hist) > 0 => Style = hist[Len(hist)].postStyle

C10_Witness ==
    /\ Embedding
    /\ \E i, j \in Calls :
          /\ i < j
          /\ ~Reuses(i) /\ hist[i].preStyle # <<>> /\ HasSuffix(hist[i].style, <<";">>)
          /\ Reuses(j)

----------------------------------------------------------------------------
(* Properties of TransformList.MarshalXMLAttr *)

\* The pieces of s between the occurrences of the character sep.
RECURSIVE Split(_, _)
Split(s, sep) ==
    IF \E p \in 1..Len(s) : s[p] = sep
    THEN LET p == CHOOSE q \in 1..Len(s) :
                     s[q] = sep /\ \A x \in 1..(q - 1) : s[x] # sep
         IN  <<SubSeq(s, 1, p - 1)>> \o Split(SubSeq(s, p + 1, Len(s)), sep)
    ELSE <<s>>

\* The operation name a call writes.
OpName(op) ==
    CASE op = "TranslateInt" -> Translate
      [] op = "RotateOrig" -> Rotate
      [] op = "SkewX" -> SkewXName
      [] op = "SkewY" -> SkewYName

\* The text of an argument of a call.
ArgText(op, a) == IF op = "TranslateInt" THEN Itoa(a) ELSE FormatFloat(a)

\* C8: MarshalXMLAttr yields one 'name(arg1,arg2,...)' string per call, in
\* call order, the arguments joined by ',' without spaces and the operation
\* strings joined by exactly one space, with no leading or trailing space; a
\* chain of zero operations yields the empty string, and TranslateInt(1,2)
\* then RotateOrig(30) yields "translate(1,2) rotate(30)".
C8_TransformChainText ==
    attr.set =>
        LET out == attr.Value
            calls == attr.calls
            pieces == Split(out, " ")
        IN  /\ calls = <<>> => out = <<>>
            /\ calls # <<>> =>
                  /\ out[1] # " " /\ out[Len(out)] # " "
                  /\ Len(pieces) = Len(calls)
                  /\ \A i \in 1..Len(calls) :
                        LET name == OpName(calls[i].op)
                            piece == pieces[i]
                            inner == SubSeq(piece, Len(name) + 2, Len(piece) - 1)
                            args == Split(inner, ",")
                        IN  /\ Len(piece) >= Len(name) + 2
                            /\ SubSeq(piece, 1, Len(name)) = name
                            /\ piece[Len(name) + 1] = "("
                            /\ piece[Len(piece)] = ")"
                            /\ Len(args) = Len(calls[i].args)
                            /\ \A k \in 1..Len(args) :
                                  args[k] = ArgText(calls[i].op, calls[i].args[k])
            /\ calls = << [op |-> "TranslateInt", args |-> <<1, 2>>],
                          [op |-> "RotateOrig", args |-> <<Float(FALSE, 30, 0)>>] >>
                  => out = <<"t", "r", "a", "n", "s", "l", "a", "t", "e", "(", "1", ",",
                             "2", ")", " ", "r", "o", "t", "a", "t", "e", "(", "3", "0",
                             ")">>

C8_Witness ==
    /\ attr.set
    /\ Len(attr.calls) = 3
    /\ attr.calls[1].op = "TranslateInt"
    /\ attr.calls[2].op = "RotateOrig"
    /\ attr.calls[3].op = "SkewX"
    /\ attr.calls = tcalls


----------------------------------------------------------------------------
(* Properties of ElemList *)

\* The kind of node an element-adding method appends.
NodeKind(op) ==
    CASE op = "LineInt" -> "line"
      [] op = "RectInt" -> "Rect"
      [] op = "CircleInt" -> "circle"
      [] op = "EllipseInt" -> "ellipse"
      [] op = "PolyLine" -> "PolyLine"
      [] op = "Polygon" -> "polygon"
      [] op = "Path" -> "path"
      [] op = "TextInt" -> "text"
      [] op = "UseObjectInt" -> "use"
      [] op = "Group" -> "Group"
      [] op = "Defs" -> "Defs"
      [] op = "Title" -> "title"

\* The lists a and b hold the same pointers at their first n positions.
SamePointers(a, b, n) == \A k \in 1..n : a[k].id = b[k].id

\* The children in the lists ls are held in the order of the logged calls ec:
\* every call put one new node of its kind after the children its list had,
\* and the k-th child of a list is the node of the k-th call on that list,
\* whatever other calls (PreAlloc among them) were made in between.
Held(ls, ec) ==
    /\ \A i \in DOMAIN ec :
          LET n == Len(ec[i].before)
              new == ec[i].after[n + 1]
          IN  /\ Len(ec[i].after) = n + 1
              /\ SamePointers(ec[i].after, ec[i].before, n)
              /\ new.kind = NodeKind(ec[i].op)
              /\ \A x \in 1..(i - 1) : new.id # ec[x].after[Len(ec[x].after)].id
    /\ \A h \in DOMAIN ls :
          LET on == { i \in DOMAIN ec : ec[i].h = h }
          IN  /\ Len(ls[h].items) = Cardinality(on)
              /\ \A i \in on :
                    LET k == Len(ec[i].after)
                    IN  /\ k = Cardinality({ x \in on : x <= i })
                        /\ ls[h].items[k].kind = NodeKind(ec[i].op)
                        /\ SamePointers(ls[h].items, ec[i].after, k)

\* C9: a container's child list is append-only and order-preserving: each
\* element-adding operation lengthens the list by exactly one, leaves every
\* earlier child at its position and puts the new node last, so the children
\* are held in the order of the calls; PreAlloc never changes the children.
C9_AppendOnlyInOrder == Held(lists, ecalls)

\* Three children of different kinds in one container, one of them a nested
\* container that PreAlloc has made non-nil while it is empty.
C9_Witness ==
    \E h \in DOMAIN lists :
        /\ Len(lists[h].items) = 3
        /\ lists[h].items[1].kind # lists[h].items[2].kind
        /\ lists[h].items[2].kind # lists[h].items[3].kind
        /\ lists[h].items[1].kind # lists[h].items[3].kind
        /\ \E k \in 1..3 :
              /\ lists[h].items[k].c # 0
              /\ ~lists[lists[h].items[k].c].isNil
              /\ lists[lists[h].items[k].c].items = <<>>

----------------------------------------------------------------------------
(* Properties of the shape constructors *)

ShapeOps == { "LineInt", "RectInt", "CircleInt", "EllipseInt", "PolyLine",
              "Polygon", "Path" }

\* The markup tag that names the shape a constructor draws.
ShapeTag(op) ==
    CASE op = "LineInt" -> "line"
      [] op = "RectInt" -> "rect"
      [] op = "CircleInt" -> "circle"
      [] op = "EllipseInt" -> "ellipse"
      [] op = "PolyLine" -> "polyline"
      [] op = "Polygon" -> "polygon"
      [] op = "Path" -> "path"

\* The node call i appended.
Added(i) == ecalls[i].after[Len(ecalls[i].after)]

\* C11: every shape constructor appends an element whose markup tag names the
\* shape it draws (LineInt 'line', RectInt 'rect', CircleInt 'circle',
\* EllipseInt 'ellipse', PolyLine 'polyline', Polygon 'polygon', Path 'path'),
\* so elements of distinct shape kinds never share a tag.
C11_ShapeTagNamesShape ==
    /\ \A i \in DOMAIN ecalls :
          ecalls[i].op \in ShapeOps => Added(i).tag = ShapeTag(ecalls[i].op)
    /\ \A i, j \in DOMAIN ecalls :
          (/\ ecalls[i].op \in ShapeOps
           /\ ecalls[j].op \in ShapeOps
           /\ ecalls[i].op # ecalls[j].op) => Added(i).tag # Added(j).tag

====
